---- MODULE Spec2Model ----
(***************************************************************************)
(* Model of extol_sprite_layer (src/src/lib.rs): the per-frame systems of  *)
(* SpriteLayerPlugin<Layer> acting on a Bevy world.                        *)
(*                                                                         *)
(* A frame (one app.update()) runs, in this order:                         *)
(*   First : clear_z_coordinates                                           *)
(*   Last  : inherited_layers |> compute_render_z_coordinates              *)
(*           (deferred commands applied at the sync point of .chain())     *)
(*           update_global_transforms                                      *)
(*                                                                         *)
(* Numbers: every z value is an exact multiple of 1/ZUnit, kept as an      *)
(* integer count of such units (f32 rounding is not modelled).             *)
(***************************************************************************)
EXTENDS Integers, Sequences, FiniteSets

\* Number of entities of the world.
MaxEntities == 3

Entities == 1..MaxEntities

\* Vertical world positions the host places entities at: above, at and below 0.
Ys == {-1, 0, 1}

\* Entity ids start at 1; 0 stands for "no Parent component".
NoParent == 0

\* Option<&Layer> = None
NoLayer == "None"

\* tests::Layer
Layers == {"Bottom", "Middle", "Top"}

RECURSIVE Gcd(_, _)
Gcd(a, b) == IF b = 0 THEN a ELSE Gcd(b, a % b)

RECURSIVE LcmUpTo(_)
LcmUpTo(n) == IF n <= 1 THEN 1 ELSE (LcmUpTo(n - 1) * n) \div Gcd(LcmUpTo(n - 1), n)

\* 1.0 expressed in z units: every i/n with n <= MaxEntities, and 1/2, is a
\* whole number of units.
ZUnit == 2 * LcmUpTo(MaxEntities)

\* impl LayerIndex for tests::Layer
TestsLayerZ == [l \in Layers |->
                  CASE l = "Bottom" -> 0
                    [] l = "Middle" -> ZUnit
                    [] l = "Top"    -> 2 * ZUnit]

\* another implementation of LayerIndex, whose layers are half a unit apart
HalfStepLayerZ == [l \in Layers |->
                     CASE l = "Bottom" -> 0
                       [] l = "Middle" -> ZUnit \div 2
                       [] l = "Top"    -> ZUnit]

LayerImpls == {TestsLayerZ, HalfStepLayerZ}

VARIABLES
    alive,            \* entities that exist in the world
    parent,           \* Parent component (NoParent: none)
    layer,            \* Layer component (NoLayer: none)
    transform_bundle, \* entities that carry Transform and GlobalTransform
    transformZ,       \* Transform.translation.z
    globalY,          \* GlobalTransform.translation().y
    globalZ,          \* GlobalTransform.translation().z
    render_z,         \* RenderZCoordinate component, on the entities that carry it
    y_sort,           \* SpriteLayerOptions.y_sort
    zOf,              \* Layer::as_z_coordinate of the plugin's Layer type
    layer_map,        \* the HashMap<Entity, Layer> returned by inherited_layers
    commands,         \* queued try_insert(RenderZCoordinate(z)) commands
    pc,               \* position in the frame's schedule
    frames_unchanged  \* frames begun since the host last changed the world (at most 2)

vars == <<alive, parent, layer, transform_bundle, transformZ, globalY, globalZ,
          render_z, y_sort, zOf, layer_map, commands, pc, frames_unchanged>>

----
\* Helpers

EmptyMap == [e \in {} |-> 0]

\* The function with the pairs <<key, value>> of a set, one pair per key.
MapOf(pairs) ==
    [e \in {p[1] : p \in pairs} |-> (CHOOSE p \in pairs : p[1] = e)[2]]

\* All orders in which the elements of S can be enumerated.
RECURSIVE OrdersOf(_)
OrdersOf(S) ==
    IF S = {} THEN {<<>>}
    ELSE UNION {{<<x>> \o s : s \in OrdersOf(S \ {x})} : x \in S}

OrdersTable == [S \in SUBSET Entities |-> OrdersOf(S)]

Orders(S) == OrdersTable[S]

\* Children component of an entity
Children(entity) == {c \in alive : parent[c] = entity}

----
\* First: clear_z_coordinates

clear_z_coordinates ==
    /\ pc = "idle"
    /\ transformZ' = [e \in Entities |->
                        IF e \in DOMAIN render_z /\ e \in transform_bundle
                        THEN 0 ELSE transformZ[e]]
    /\ frames_unchanged' = IF frames_unchanged = 0 THEN 1 ELSE 2
    /\ pc' = "pipe"
    /\ UNCHANGED <<alive, parent, layer, transform_bundle, globalY, globalZ,
                   render_z, y_sort, zOf, layer_map, commands>>

----
\* Last: inherited_layers and compute_render_z_coordinates

\* The entries propagate_layers_impl inserts into layer_map for `entity` and
\* its descendants, as <<entity, layer>> pairs.
RECURSIVE propagate_layers_impl_shadowed(_, _)
propagate_layers_impl_shadowed(entity, propagated_layer) ==
    LET own == IF layer[entity] # NoLayer THEN layer[entity] ELSE propagated_layer
    IN {<<entity, own>>}
       \cup UNION {propagate_layers_impl_shadowed(child, propagated_layer) :
                     child \in Children(entity)}

RECURSIVE propagate_layers_impl(_, _)
propagate_layers_impl(entity, propagated_layer) ==
    LET own == IF layer[entity] # NoLayer THEN layer[entity] ELSE propagated_layer
    IN {<<entity, own>>}
       \cup UNION {propagate_layers_impl(child, own) : child \in Children(entity)}

\* root_query: Query<(Entity, &Layer), Without<Parent>>
root_query == {e \in alive : parent[e] = NoParent /\ layer[e] # NoLayer}

\* The HashMap inherited_layers returns.
inherited_layers ==
    MapOf(UNION {propagate_layers_impl(e, layer[e]) : e \in root_query})

\* Layer::as_z_coordinate
as_z_coordinate(l) == zOf[l]

\* query.get(entity) of Query<&GlobalTransform>, with
\* unwrap_or_else(|_| ZIndexSortKey::new(&Default::default())): the y of the
\* identity transform when the entity has no GlobalTransform.
TranslationYSkipDefault(entity) ==
    IF entity \in transform_bundle THEN globalY[entity] ELSE 0 - 2

TranslationY(entity) ==
    IF entity \in transform_bundle THEN globalY[entity] ELSE 0

\* ZIndexSortKey::new: Reverse(OrderedFloat(y)); a key is kept as the number
\* -y, whose ascending order is the descending order of y.
ZIndexSortKeyNotReversed(y) == y

ZIndexSortKey(y) == 0 - y

\* Ord of (ZIndexSortKey, Entity): lexicographic, the key first.
SortKeyLeqKeyOnly(a, b) == a[1] <= b[1]

SortKeyLeq(a, b) == a[1] < b[1] \/ (a[1] = b[1] /\ a[2] <= b[2])

\* sort_unstable: the results it can produce are the rearrangements of the
\* vector that are ascending; elements that compare equal land in any order.
sort_unstable(v) ==
    LET n == Len(v)
        ascending == {p \in Orders(1..n) :
                        \A i \in 1..(n - 1) : SortKeyLeq(v[p[i]], v[p[i + 1]])}
    IN {[i \in 1..n |-> v[p[i]]] : p \in ascending}

\* scale_factor = 1.0 / sort_keys.len()
scale_factor(len) == ZUnit \div len

\* as_z_coordinate() + (i as f32) * scale_factor
ZOfPositionOneBased(l, i, len) == as_z_coordinate(l) + (i + 1) * scale_factor(len)

ZOfPositionUnscaled(l, i, len) == as_z_coordinate(l) + i * ZUnit

ZOfPosition(l, i, len) == as_z_coordinate(l) + i * scale_factor(len)

\* if options.y_sort
YSortBranchAlways == TRUE

YSortBranch == y_sort

\* The commands compute_render_z_coordinates can queue for the map `layers`,
\* one set for each iteration order of layers.keys() and each outcome of the
\* sort. The try_insert commands of one system target distinct entities, so
\* the order of the queue does not change what applying it does: the queue
\* is kept as the set of its <<entity, z>> commands.
compute_render_z_coordinates(layers) ==
    IF YSortBranch
    THEN UNION {
           LET sort_keys == [i \in 1..Len(order) |->
                               <<ZIndexSortKey(TranslationY(order[i])), order[i]>>]
           IN {{<<sorted[i][2], ZOfPosition(layers[sorted[i][2]], i - 1, Len(sorted))>> :
                    i \in 1..Len(sorted)} :
                 sorted \in sort_unstable(sort_keys)} :
           order \in Orders(DOMAIN layers)}
    ELSE {{<<e, as_z_coordinate(layers[e])>> : e \in DOMAIN layers}}

\* The order .chain() gives the systems of the Last schedule: the piped
\* system, the sync point that applies its deferred commands, then
\* update_global_transforms.
ChainedAfterNoSyncPoint(stage) ==
    CASE stage = "pipe"       -> "write_back"
      [] stage = "write_back" -> "apply"
      [] stage = "apply"      -> "idle"

ChainedAfter(stage) ==
    CASE stage = "pipe"       -> "apply"
      [] stage = "apply"      -> "write_back"
      [] stage = "write_back" -> "idle"

\* Last: inherited_layers.pipe(compute_render_z_coordinates), one system.
\* layer_map keeps the map of the latest frame after the system consumed it.
inherited_layers_pipe_compute ==
    /\ pc = "pipe"
    /\ layer_map' = inherited_layers
    /\ commands' \in compute_render_z_coordinates(layer_map')
    /\ pc' = ChainedAfter("pipe")
    /\ UNCHANGED <<alive, parent, layer, transform_bundle, transformZ, globalY,
                   globalZ, render_z, y_sort, zOf, frames_unchanged>>

\* The sync point that .chain() puts between a system with deferred
\* parameters and the next one: the queued commands are applied. try_insert
\* does nothing for an entity that no longer exists.
apply_deferred ==
    /\ pc = "apply"
    /\ LET applied == {c \in commands : c[1] \in alive}
       IN render_z' = [e \in DOMAIN render_z \cup {c[1] : c \in applied} |->
                         IF \E c \in applied : c[1] = e
                         THEN (CHOOSE c \in applied : c[1] = e)[2]
                         ELSE render_z[e]]
    /\ commands' = {}
    /\ pc' = ChainedAfter("apply")
    /\ UNCHANGED <<alive, parent, layer, transform_bundle, transformZ, globalY,
                   globalZ, y_sort, zOf, layer_map, frames_unchanged>>

\* Query<(&RenderZCoordinate, &mut GlobalTransform)>
update_global_transforms ==
    /\ pc = "write_back"
    /\ globalZ' = [e \in Entities |->
                     IF e \in DOMAIN render_z /\ e \in transform_bundle
                     THEN render_z[e] ELSE globalZ[e]]
    /\ pc' = ChainedAfter("write_back")
    /\ UNCHANGED <<alive, parent, layer, transform_bundle, transformZ, globalY,
                   render_z, y_sort, zOf, layer_map, commands, frames_unchanged>>

----
\* The host, between frames and during one

\* world.entity_mut(e).remove::<Layer>()
RemoveLayer(e) ==
    /\ pc = "idle"
    /\ e \in alive
    /\ layer[e] # NoLayer
    /\ layer' = [layer EXCEPT ![e] = NoLayer]
    /\ frames_unchanged' = 0
    /\ UNCHANGED <<alive, parent, transform_bundle, transformZ, globalY, globalZ,
                   render_z, y_sort, zOf, layer_map, commands, pc>>

\* app.insert_resource(SpriteLayerOptions { y_sort })
SetYSort(b) ==
    /\ pc = "idle"
    /\ b # y_sort
    /\ y_sort' = b
    /\ frames_unchanged' = 0
    /\ UNCHANGED <<alive, parent, layer, transform_bundle, transformZ, globalY,
                   globalZ, render_z, zOf, layer_map, commands, pc>>

\* An entity without children is despawned after compute_render_z_coordinates
\* queued its commands and before they are applied.
Despawn(e) ==
    /\ pc = "apply"
    /\ e \in alive
    /\ Children(e) = {}
    /\ alive' = alive \ {e}
    /\ parent' = [parent EXCEPT ![e] = NoParent]
    /\ layer' = [layer EXCEPT ![e] = NoLayer]
    /\ transform_bundle' = transform_bundle \ {e}
    /\ transformZ' = [transformZ EXCEPT ![e] = 0]
    /\ globalY' = [globalY EXCEPT ![e] = 0]
    /\ globalZ' = [globalZ EXCEPT ![e] = 0]
    /\ render_z' = [x \in DOMAIN render_z \ {e} |-> render_z[x]]
    /\ frames_unchanged' = 0
    /\ UNCHANGED <<y_sort, zOf, layer_map, commands, pc>>

----
\* Specifications

\* The world before the first frame, apart from what the host spawned.
InitPlugin ==
    /\ alive = Entities
    /\ transformZ = [e \in Entities |-> IF e \in transform_bundle THEN ZUnit ELSE 0]
    /\ globalZ = [e \in Entities |-> IF e \in transform_bundle THEN ZUnit ELSE 0]
    /\ render_z = EmptyMap
    /\ layer_map = EmptyMap
    /\ commands = {}
    /\ pc = "idle"
    /\ frames_unchanged = 0

\* Trees of entities, some with a Layer, all spawned like those of
\* tests::simple: transform_at(1.0, 1.0), at z = 1.0, with tests::Layer.
Init ==
    /\ parent \in {f \in [Entities -> {NoParent} \cup Entities] :
                     \A e \in Entities : f[e] < e}
    /\ layer \in [Entities -> Layers \cup {NoLayer}]
    /\ transform_bundle = Entities
    /\ globalY = [e \in Entities |-> 1]
    /\ y_sort \in BOOLEAN
    /\ zOf = TestsLayerZ
    /\ InitPlugin

\* Root entities, each with a tests::Layer, with or without a transform,
\* anywhere on the y axis, y-sorted (the default of SpriteLayerOptions).
InitYSort ==
    /\ parent = [e \in Entities |-> NoParent]
    /\ layer \in [Entities -> Layers]
    /\ transform_bundle \in SUBSET Entities
    /\ globalY \in {f \in [Entities -> Ys] :
                      \A e \in Entities : e \notin transform_bundle => f[e] = 0}
    /\ y_sort = TRUE
    /\ zOf = TestsLayerZ
    /\ InitPlugin

\* Root entities, each with a Layer and a transform, anywhere on the y axis;
\* the Layer type is any of LayerImpls, y-sorting is on or off.
InitLayerImpl ==
    /\ parent = [e \in Entities |-> NoParent]
    /\ layer \in [Entities -> Layers]
    /\ transform_bundle = Entities
    /\ globalY \in [Entities -> Ys]
    /\ y_sort \in BOOLEAN
    /\ zOf \in LayerImpls
    /\ InitPlugin

Next ==
    \/ clear_z_coordinates
    \/ inherited_layers_pipe_compute
    \/ apply_deferred
    \/ update_global_transforms
    \/ \E e \in Entities : RemoveLayer(e)
    \/ \E b \in BOOLEAN : SetYSort(b)

Spec == Init /\ [][Next]_vars

NextYSort ==
    \/ clear_z_coordinates
    \/ inherited_layers_pipe_compute
    \/ apply_deferred
    \/ update_global_transforms
    \/ \E e \in Entities : Despawn(e)

SpecYSort == InitYSort /\ [][NextYSort]_vars

NextSystems ==
    \/ clear_z_coordinates
    \/ inherited_layers_pipe_compute
    \/ apply_deferred
    \/ update_global_transforms

SpecLayerImpl == InitLayerImpl /\ [][NextSystems]_vars

----
\* Vocabulary of the properties

\* The entities of the effective-layer mapping of the latest frame.
Mapped == DOMAIN layer_map

\* The latest frame has run to its end, on the world as it is now.
FrameDone == pc = "idle" /\ frames_unchanged >= 1

\* layer_map is the mapping of the world as it is now.
MapIsCurrent == pc \in {"apply", "write_back", "idle"} /\ frames_unchanged >= 1

\* base(effective layer) of a mapped entity
Base(e) == zOf[layer_map[e]]

\* The parentless ancestor of an entity (itself, when it has no parent).
RECURSIVE RootOf(_)
RootOf(e) == IF parent[e] = NoParent THEN e ELSE RootOf(parent[e])

\* The explicit layer nearest to an entity, going up from the entity itself.
RECURSIVE NearestLayer(_)
NearestLayer(e) ==
    IF layer[e] # NoLayer THEN layer[e]
    ELSE IF parent[e] = NoParent THEN NoLayer
    ELSE NearestLayer(parent[e])

\* The world vertical position, zero for an entity without a world position.
YOrZero(e) == IF e \in transform_bundle THEN globalY[e] ELSE 0

\* The number of mapped entities that come before e when the mapped entities
\* are put higher y first, and by entity id where the y are equal.
SortedPosition(e) ==
    Cardinality({f \in Mapped :
                   \/ YOrZero(f) > YOrZero(e)
                   \/ (YOrZero(f) = YOrZero(e) /\ f < e)})

----
\* C1 as stated: after a frame, a mapped entity whose layer has the smaller
\* base has the strictly smaller computed depth, for any two layers whose
\* bases differ.
C1_LayerMonotonicityAnyBases ==
    FrameDone =>
        \A a, b \in Mapped :
            Base(a) < Base(b) =>
                /\ a \in DOMAIN render_z
                /\ b \in DOMAIN render_z
                /\ render_z[a] < render_z[b]

\* C1, amended: after a frame, with y-sorting on or off, a mapped entity whose
\* layer's base is at least 1.0 below the base of another mapped entity's
\* layer has the strictly smaller computed depth, wherever the entities are.
C1_LayerMonotonicity ==
    FrameDone =>
        \A a, b \in Mapped :
            Base(a) + ZUnit <= Base(b) =>
                /\ a \in DOMAIN render_z
                /\ b \in DOMAIN render_z
                /\ render_z[a] < render_z[b]

\* Two layers one unit apart, the entity of the lower layer higher up on the
\* y axis than the other and last in the sorted order of its frame.
C1_Witness ==
    /\ FrameDone
    /\ y_sort
    /\ \E a, b \in Mapped :
         /\ Base(a) + ZUnit = Base(b)
         /\ globalY[a] < globalY[b]
         /\ SortedPosition(a) = Cardinality(Mapped) - 1
         /\ SortedPosition(b) = 0
         /\ render_z[a] < render_z[b]

\* C3: after a frame, the computed depth of every mapped entity lies in
\* [base, base + 1) of its effective layer; with y-sorting on, the offset of
\* the entity at sorted position i of n mapped entities is i / n.
C3_OffsetBound ==
    FrameDone =>
        \A e \in Mapped :
            /\ e \in DOMAIN render_z
            /\ Base(e) <= render_z[e]
            /\ render_z[e] < Base(e) + ZUnit
            /\ y_sort =>
                 /\ SortedPosition(e) \in 0..(Cardinality(Mapped) - 1)
                 /\ (render_z[e] - Base(e)) * Cardinality(Mapped)
                      = SortedPosition(e) * ZUnit

\* Three or more mapped entities, y-sorted, the last of them with an offset
\* of (n - 1) / n.
C3_Witness ==
    /\ FrameDone
    /\ y_sort
    /\ Cardinality(Mapped) >= 3
    /\ \E e \in Mapped :
         (render_z[e] - Base(e)) * Cardinality(Mapped)
           = (Cardinality(Mapped) - 1) * ZUnit

\* C9: with y_sort false, after a frame every mapped entity has the base of
\* its effective layer as computed depth, whatever the positions and the
\* number of mapped entities.
C9_DisabledModeCollapse ==
    (FrameDone /\ ~y_sort) =>
        \A e \in Mapped :
            /\ e \in DOMAIN render_z
            /\ render_z[e] = Base(e)

\* Two entities of one layer at different heights, with the same depth.
C9_Witness ==
    /\ FrameDone
    /\ ~y_sort
    /\ \E a, b \in Mapped :
         /\ a # b
         /\ layer_map[a] = layer_map[b]
         /\ globalY[a] # globalY[b]
         /\ render_z[a] = render_z[b]
         /\ render_z[a] > 0

----
\* C2: at the end of a frame, the first one included, every mapped entity
\* carries a RenderZCoordinate, and the z of its GlobalTransform translation
\* equals it.
C2_SameFrameWriteBack ==
    FrameDone =>
        \A e \in Mapped :
            /\ e \in DOMAIN render_z
            /\ e \in transform_bundle
            /\ globalZ[e] = render_z[e]

\* The end of the first frame after the world changed, with an entity whose
\* depth differs from the z it was spawned at.
C2_Witness ==
    /\ FrameDone
    /\ frames_unchanged = 1
    /\ \E e \in Mapped :
         /\ render_z[e] # ZUnit
         /\ render_z[e] # 0
         /\ globalZ[e] = render_z[e]

\* C4: in the mapping inherited_layers produces, every entity of a tree whose
\* parentless root has a Layer has an entry: its own Layer when it has one,
\* otherwise the Layer of its nearest ancestor that has one.
C4_InheritanceCorrectness ==
    MapIsCurrent =>
        \A e \in alive :
            layer[RootOf(e)] # NoLayer =>
                /\ e \in Mapped
                /\ layer_map[e] = NearestLayer(e)

\* A root with a Layer, its child with another Layer, and a grandchild
\* without one that gets the child's Layer.
C4_Witness ==
    /\ MapIsCurrent
    /\ \E r, c, g \in alive :
         /\ parent[r] = NoParent
         /\ parent[c] = r
         /\ parent[g] = c
         /\ layer[r] # NoLayer
         /\ layer[c] # NoLayer
         /\ layer[c] # layer[r]
         /\ layer[g] = NoLayer
         /\ layer_map[g] = layer[c]

\* C5 as stated: after a frame, an entity without a Layer whose root has no
\* Layer is not in the mapping, and a RenderZCoordinate it carries from an
\* earlier frame is zero.
C5_Coverage ==
    FrameDone =>
        \A e \in alive :
            (layer[e] = NoLayer /\ layer[RootOf(e)] = NoLayer) =>
                /\ e \notin Mapped
                /\ e \in DOMAIN render_z => render_z[e] = 0

\* C6 as stated: after a frame, every entity with a Layer, and every entity
\* without one that descends from an entity with a Layer, carries a
\* RenderZCoordinate.
C6_LayeredEntitiesHaveRenderZ ==
    FrameDone =>
        \A e \in alive :
            NearestLayer(e) # NoLayer => e \in DOMAIN render_z

----
\* C7: with y-sorting on, after a frame, of two mapped entities of the same
\* effective layer the one higher up on the y axis has a computed depth that
\* is not greater than the other's, and two such entities have the same
\* depth only if they are at the same y.
C7_WithinLayerOrdering ==
    (FrameDone /\ y_sort) =>
        \A a, b \in Mapped \cap transform_bundle :
            (a # b /\ layer_map[a] = layer_map[b]) =>
                /\ a \in DOMAIN render_z
                /\ b \in DOMAIN render_z
                /\ globalY[a] > globalY[b] => render_z[a] <= render_z[b]
                /\ render_z[a] = render_z[b] => globalY[a] = globalY[b]

\* Two entities of one layer, the one spawned later higher up and therefore
\* with the smaller depth.
C7_Witness ==
    /\ FrameDone
    /\ y_sort
    /\ \E a, b \in Mapped \cap transform_bundle :
         /\ a > b
         /\ layer_map[a] = layer_map[b]
         /\ globalY[a] > globalY[b]
         /\ render_z[a] < render_z[b]

\* C8: a frame that follows a frame on the same world (same entities, layers,
\* positions and y_sort) leaves every RenderZCoordinate and every
\* GlobalTransform z as the frame before left them, whatever order the
\* mapping is iterated in and however the sort arranges equal keys.
C8_Idempotence ==
    [][frames_unchanged' = 2 => (render_z' = render_z /\ globalZ' = globalZ)]_vars

\* The second frame on an unchanged world has applied its commands, with two
\* mapped entities at the same y.
C8_Witness ==
    /\ pc = "write_back"
    /\ frames_unchanged = 2
    /\ \E a, b \in Mapped :
         /\ a # b
         /\ {a, b} \subseteq transform_bundle
         /\ globalY[a] = globalY[b]
         /\ render_z[a] # render_z[b]

\* The depth compute_render_z_coordinates is to queue for a mapped entity.
ExpectedZ(e) ==
    IF y_sort
    THEN Base(e) + (SortedPosition(e) * ZUnit) \div Cardinality(Mapped)
    ELSE Base(e)

\* C10: compute_render_z_coordinates queues, for every mapped entity, the
\* depth of its layer and sorted position, an entity without world position
\* being sorted as if at y = 0; when the commands are applied, a mapped entity
\* that no longer exists gets nothing and every other mapped entity gets the
\* depth queued for it.
C10_BestEffortPerEntity ==
    /\ []((pc = "apply" /\ Mapped \subseteq alive) =>
            commands = {<<e, ExpectedZ(e)>> : e \in Mapped})
    /\ [][(pc = "apply" /\ pc' = "apply") => commands' = commands]_vars
    /\ [][(pc = "apply" /\ pc' # "apply") =>
            \A c \in commands :
                IF c[1] \in alive
                THEN c[1] \in DOMAIN render_z' /\ render_z'[c[1]] = c[2]
                ELSE c[1] \notin DOMAIN render_z']_vars

\* The commands were applied after a mapped entity was despawned; of the
\* others, one without world position got a depth between those of an entity
\* above y = 0 and of an entity below it.
C10_Witness ==
    /\ pc = "write_back"
    /\ Mapped \ alive # {}
    /\ \E e, f \in Mapped \cap alive :
         /\ e \notin transform_bundle
         /\ f \in transform_bundle
         /\ globalY[f] < 0
         /\ layer_map[e] = layer_map[f]
         /\ render_z[e] < render_z[f]

====
